---------------------------- MODULE Spec2Model ----------------------------
(***************************************************************************)
(* Planets.py: the main loop of the planet simulation (event handling,     *)
(* per-body update / trail clear / draw, end of frame) and the pure        *)
(* functions it calls (orbit initialisation, force accumulation,           *)
(* integration, projection).                                               *)
(*                                                                         *)
(* Numbers.  The program computes with Python floats; the model computes   *)
(* with integers.  Every stored quantity (x, y, vx, vy, screen             *)
(* coordinates, camera offset) is an integer, a quotient is truncated      *)
(* toward zero (Quot) and a square root is the integer square root         *)
(* (Isqrt); the operations are applied in the order the program applies    *)
(* them.  Masses, G and the two scales are given in model units chosen     *)
(* so that every product fits TLC's 32-bit integers; the time step, the    *)
(* distance floor, the trail capacity, the pan step, the viewport and the  *)
(* reset button rectangle are the program's own numbers.                   *)
(***************************************************************************)
EXTENDS Integers, Sequences, FiniteSets, TLC

VARIABLES
    planets_data,   \* the static orbital parameter records (never changes)
    bodies,         \* the global list of Body objects
    zoomed,         \* zoom flag
    camera_x,       \* camera offset
    camera_y,
    panning,        \* panning flag
    last_mouse_pos, \* None or <<x, y>>
    running,        \* main-loop flag
    trail_reset,    \* one-shot trail reset signal
    event,          \* the event the loop of line 157 handled last
    pc,             \* position in the main loop
    idx,            \* index of the body the for-loop of line 206 is at
    frame,          \* history: number of frames completed
    handled,        \* history: number of events handled
    since,          \* history: per body, frames counted since its trail was
                    \* last empty (creation, or a frame that signaled trail-reset)
    raised,         \* history: trail_reset-raising events handled in this frame
    pre,            \* history: the bodies as they were when the for-loop began
    recorded,       \* history: per body, the points recorded (with the view
                    \* they were projected under) since its trail was last empty
    advances,       \* history: per body index, the calls of update_position
    drag            \* history: the drag in progress (where and when the
                    \* primary button went down, the camera offset then, the
                    \* moves handled since, no key or reset click since)

vars == <<planets_data, bodies, zoomed, camera_x, camera_y, panning,
          last_mouse_pos, running, trail_reset, event, pc, idx, frame,
          handled, since, raised, pre, recorded, advances, drag>>

view  == <<zoomed, camera_x, camera_y, panning, last_mouse_pos>>
ghost == <<frame, handled, since, raised, pre, recorded, advances, drag>>

-----------------------------------------------------------------------------
(* Bounds of the model *)

MaxFrames == 3      \* frames run by Spec
MaxEvents == 3      \* events handled in a run of Spec
MaxOver   == 2      \* frames SpecLong runs beyond the trail capacity
MaxPresses == 11    \* key presses handled in a run of SpecProbe

-----------------------------------------------------------------------------
(* Program constants *)

WIDTH     == 900
HEIGHT    == 600
G         == <<2, 3>>       \* a fraction (model units)
SCALE     == <<1, 100>>     \* zoomed-out scale, as a fraction (model units)
ZOOM_SCALE == <<1, 25>>     \* zoomed-in scale: four times the zoomed-out one
DT        == 3600
MIN_R     == 1000           \* the 1e3 of line 63
TRAIL_CAP == 200            \* the 200 of line 84
PAN_STEP  == 50             \* the 50 of lines 165-174
central_mass == 21000       \* default parameter of get_initial_conditions

\* Python's None, where a position is expected
None == <<>>

\* pygame.Rect(10, 10, 100, 30)
reset_button == [left |-> 10, top |-> 10, width |-> 100, height |-> 30]

\* Rect.collidepoint: the right and bottom edges are outside
collidepoint(rect, pos) ==
    /\ rect.left <= pos[1] /\ pos[1] < rect.left + rect.width
    /\ rect.top  <= pos[2] /\ pos[2] < rect.top + rect.height

-----------------------------------------------------------------------------
(* Arithmetic *)

\* a / b truncated toward zero (b > 0): sign-symmetric, as float division is
Quot(a, b) == IF a >= 0 THEN a \div b ELSE -((-a) \div b)

RECURSIVE Isqrt(_)
\* math.sqrt, truncated: the largest k with k * k <= n, from the root s of
\* n \div 4 (2s or 2s + 1); s is bound once, by the set it is drawn from
Isqrt(n) ==
    IF n < 4 THEN (IF n = 0 THEN 0 ELSE 1)
    ELSE CHOOSE k \in {IF (s + 1) * (s + 1) <= n THEN s + 1 ELSE s :
                         s \in {2 * Isqrt(n \div 4)}} : TRUE

\* G * m: a product with the fraction G, rounded (truncated) before it is used
\* in the next operation, as every float operation rounds its result
GTimes(m) == Quot(G[1] * m, G[2])

-----------------------------------------------------------------------------
(* Body and the orbit initialiser *)

\* Body.__init__ (radius, color and name are display attributes only)
Body(x, y, vx, vy, mass) ==
    [x |-> x, y |-> y, vx |-> vx, vy |-> vy, mass |-> mass, trail |-> <<>>]

\* get_initial_conditions; d.e is the eccentricity in hundredths
get_initial_conditions(d) ==
    LET r == Quot(d.a * (100 - d.e), 100)
        v == Isqrt(Quot(GTimes(central_mass) * (100 + d.e), d.a * (100 - d.e)))
    IN IF d.a = 0 THEN Body(0, 0, 0, 0, d.mass)
       ELSE Body(r, 0, 0, v, d.mass)

\* [get_initial_conditions(*data) for data in planets_data]
InitialBodies(data) == [k \in 1..Len(data) |-> get_initial_conditions(data[k])]

-----------------------------------------------------------------------------
(* Body.update_position *)

\* a variant of PairForce: a body at exactly the distance floor still pulls
PairForceAtFloor(self, other) ==
    LET dx == other.x - self.x
        dy == other.y - self.y
        r2 == dx * dx + dy * dy
        r  == Isqrt(r2)
        f  == Quot(GTimes(self.mass) * other.mass, r2)
    IN IF r2 >= MIN_R * MIN_R
       THEN <<Quot(f * dx, r), Quot(f * dy, r)>>
       ELSE <<0, 0>>

\* lines 60-67: what `other` adds to (fx, fy) of `self`
PairForce(self, other) ==
    LET dx == other.x - self.x
        dy == other.y - self.y
        r2 == dx * dx + dy * dy
        r  == Isqrt(r2)
        f  == Quot(GTimes(self.mass) * other.mass, r2)
    IN IF r2 > MIN_R * MIN_R
       THEN <<Quot(f * dx, r), Quot(f * dy, r)>>
       ELSE <<0, 0>>

RECURSIVE SumForce(_, _, _)
\* lines 57-67: the loop over bodies, from index j on; `other != self` is
\* object identity, hence the comparison of indices
SumForce(i, bs, j) ==
    IF j > Len(bs) THEN <<0, 0>>
    ELSE LET rest == SumForce(i, bs, j + 1)
             p    == IF j # i THEN PairForce(bs[i], bs[j]) ELSE <<0, 0>>
         IN <<p[1] + rest[1], p[2] + rest[2]>>

NetForce(i, bs) == SumForce(i, bs, 1)

\* lines 70, 73: ax * DT with ax = fx / mass, truncated once
AccelDT(f, mass) == Quot(f * DT, mass)

\* a variant of Integrate: explicit Euler, the position moves with the old velocity
IntegrateExplicit(b, force) ==
    LET nvx == b.vx + AccelDT(force[1], b.mass)
        nvy == b.vy + AccelDT(force[2], b.mass)
    IN [b EXCEPT !.vx = nvx, !.vy = nvy,
                 !.x = b.x + b.vx * DT, !.y = b.y + b.vy * DT]

\* lines 69-77: velocity first, then position with the new velocity
Integrate(b, force) ==
    LET nvx == b.vx + AccelDT(force[1], b.mass)
        nvy == b.vy + AccelDT(force[2], b.mass)
    IN [b EXCEPT !.vx = nvx, !.vy = nvy,
                 !.x = b.x + nvx * DT, !.y = b.y + nvy * DT]

\* lines 80, 88
current_scale(z) == IF z THEN ZOOM_SCALE ELSE SCALE

\* a variant of Project: the value is rounded down (floor), not toward zero
ProjectFloor(w, scale, half, cam) ==
    (w * scale[1] + (half - cam) * scale[2]) \div scale[2]

\* lines 81-82, 90-91: int(w * scale + half - cam); int() truncates toward 0
Project(w, scale, half, cam) ==
    Quot(w * scale[1] + (half - cam) * scale[2], scale[2])

ScreenPos(b, z, cx, cy) ==
    <<Project(b.x, current_scale(z), WIDTH \div 2, cx),
      Project(b.y, current_scale(z), HEIGHT \div 2, cy)>>

\* a variant of AppendTrail: a full trail drops the new point, not the oldest
AppendTrailDropNewest(trail, pt) ==
    LET t == Append(trail, pt)
    IN IF Len(t) > TRAIL_CAP THEN SubSeq(t, 1, TRAIL_CAP) ELSE t

\* lines 83-85
AppendTrail(trail, pt) ==
    LET t == Append(trail, pt)
    IN IF Len(t) > TRAIL_CAP THEN Tail(t) ELSE t

\* the whole of update_position for bodies[i], reading the global list bs
update_position(i, bs, z, cx, cy) ==
    LET moved == Integrate(bs[i], NetForce(i, bs))
    IN [moved EXCEPT !.trail = AppendTrail(moved.trail, ScreenPos(moved, z, cx, cy))]

-----------------------------------------------------------------------------
(* Inputs *)

Keys      == {"K_z", "K_LEFT", "K_RIGHT", "K_UP", "K_DOWN", "K_SPACE"}
Buttons   == {1, 3}
\* one point on the reset button, two points off it
Positions == {<<50, 20>>, <<400, 300>>, <<430, 280>>}

\* Sun and one planet on an eccentric orbit
OrbitData == <<[a |-> 0,    e |-> 0,  mass |-> 21000],
               [a |-> 5000, e |-> 20, mass |-> 7000]>>

\* two light bodies closer to each other than the distance floor: they drift
\* side by side for ever, so a long run stays within 32-bit integers
DriftData == <<[a |-> 5000, e |-> 0, mass |-> 5000],
               [a |-> 5500, e |-> 0, mass |-> 5000]>>

\* three light bodies on a line, the second and third just inside, on and
\* just outside the distance floor of the first or of each other, or at the
\* same place; masses that G does not divide evenly
ProbeData ==
    {<<[a |-> 0,  e |-> 0, mass |-> 4000],
       [a |-> a2, e |-> 0, mass |-> 1000],
       [a |-> a3, e |-> 0, mass |-> 3000]>> :
        a2 \in {999, 1000, 1001}, a3 \in {1001, 2000, 2002}}

\* event records; an event type without key, button or pos has "", 0 or None
Event(type, key, button, pos) ==
    [type |-> type, key |-> key, button |-> button, pos |-> pos]

NoEvent == Event("NOEVENT", "", 0, None)

ViewTag == [zoomed |-> zoomed, camera_x |-> camera_x, camera_y |-> camera_y]

\* no drag has begun
NoDrag == [p0 |-> None, cx |-> 0, cy |-> 0, at |-> 0, moves |-> 0, ok |-> FALSE]

-----------------------------------------------------------------------------
(* State after the module-level code of lines 25-30, 147, 150-151 *)

InitWith(data) ==
    /\ planets_data = data
    /\ bodies = InitialBodies(data)
    /\ zoomed = FALSE
    /\ camera_x = 0
    /\ camera_y = 0
    /\ panning = FALSE
    /\ last_mouse_pos = None
    /\ running = TRUE
    /\ trail_reset = FALSE
    /\ event = NoEvent
    /\ pc = "events"
    /\ idx = 0
    /\ frame = 0
    /\ handled = 0
    /\ since = [k \in 1..Len(data) |-> 0]
    /\ raised = 0
    /\ pre = InitialBodies(data)
    /\ recorded = [k \in 1..Len(data) |-> <<>>]
    /\ advances = [k \in 1..Len(data) |-> 0]
    /\ drag = NoDrag

Init == InitWith(OrbitData)

InitLong == InitWith(DriftData)

InitProbe == \E data \in ProbeData : InitWith(data)

-----------------------------------------------------------------------------
(* Event handling, lines 157-192: one action per event type *)

\* a variant of Handled: an event is handled wherever the loop is
HandledAnywhere(ev, up) ==
    /\ pc \in {"events", "update", "clear", "draw", "flip"}
    /\ event' = ev
    /\ handled' = handled + 1
    /\ raised' = raised + up
    /\ UNCHANGED <<planets_data, pc, idx, frame, pre>>

\* bookkeeping shared by the handlers; up = 1 when the handler raises trail_reset
Handled(ev, up) ==
    /\ pc = "events"
    /\ event' = ev
    /\ handled' = handled + 1
    /\ raised' = raised + up
    /\ UNCHANGED <<planets_data, pc, idx, frame, pre>>

\* lines 158-159
Quit ==
    /\ Handled(Event("QUIT", "", 0, None), 0)
    /\ running' = FALSE
    /\ UNCHANGED <<bodies, view, trail_reset, since, recorded, advances, drag>>

\* a variant of KeyDown: the zoom key toggles the zoom without raising trail_reset
KeyDownSilentZoom(key) ==
    /\ Handled(Event("KEYDOWN", key, 0, None),
               IF key = "K_SPACE" THEN 0 ELSE 1)
    /\ zoomed' = IF key = "K_z" THEN ~zoomed ELSE zoomed
    /\ camera_x' = CASE key = "K_LEFT"  -> camera_x - PAN_STEP
                     [] key = "K_RIGHT" -> camera_x + PAN_STEP
                     [] OTHER           -> camera_x
    /\ camera_y' = CASE key = "K_UP"    -> camera_y - PAN_STEP
                     [] key = "K_DOWN"  -> camera_y + PAN_STEP
                     [] OTHER           -> camera_y
    /\ trail_reset' = IF key \in {"K_SPACE", "K_z"} THEN trail_reset ELSE TRUE
    /\ drag' = [drag EXCEPT !.ok = FALSE]
    /\ UNCHANGED <<bodies, panning, last_mouse_pos, running, since, recorded,
                   advances>>

\* a variant of KeyDown: the up and down keys are swapped
KeyDownSwapped(key) ==
    /\ Handled(Event("KEYDOWN", key, 0, None),
               IF key = "K_SPACE" THEN 0 ELSE 1)
    /\ zoomed' = IF key = "K_z" THEN ~zoomed ELSE zoomed
    /\ camera_x' = CASE key = "K_LEFT"  -> camera_x - PAN_STEP
                     [] key = "K_RIGHT" -> camera_x + PAN_STEP
                     [] OTHER           -> camera_x
    /\ camera_y' = CASE key = "K_UP"    -> camera_y + PAN_STEP
                     [] key = "K_DOWN"  -> camera_y - PAN_STEP
                     [] OTHER           -> camera_y
    /\ trail_reset' = IF key = "K_SPACE" THEN trail_reset ELSE TRUE
    /\ drag' = [drag EXCEPT !.ok = FALSE]
    /\ UNCHANGED <<bodies, panning, last_mouse_pos, running, since, recorded,
                   advances>>

\* lines 160-175
KeyDown(key) ==
    /\ Handled(Event("KEYDOWN", key, 0, None),
               IF key = "K_SPACE" THEN 0 ELSE 1)
    /\ zoomed' = IF key = "K_z" THEN ~zoomed ELSE zoomed
    /\ camera_x' = CASE key = "K_LEFT"  -> camera_x - PAN_STEP
                     [] key = "K_RIGHT" -> camera_x + PAN_STEP
                     [] OTHER           -> camera_x
    /\ camera_y' = CASE key = "K_UP"    -> camera_y - PAN_STEP
                     [] key = "K_DOWN"  -> camera_y + PAN_STEP
                     [] OTHER           -> camera_y
    /\ trail_reset' = IF key = "K_SPACE" THEN trail_reset ELSE TRUE
    /\ drag' = [drag EXCEPT !.ok = FALSE]
    /\ UNCHANGED <<bodies, panning, last_mouse_pos, running, since, recorded,
                   advances>>

\* a variant of reset_simulation: the zoom flag is left as it is
reset_simulationKeepZoom ==
    /\ bodies' = InitialBodies(planets_data)
    /\ camera_x' = 0
    /\ camera_y' = 0
    /\ zoomed' = zoomed

\* lines 139-144
reset_simulation ==
    /\ bodies' = InitialBodies(planets_data)
    /\ camera_x' = 0
    /\ camera_y' = 0
    /\ zoomed' = FALSE

\* a variant of MouseButtonDown: panning starts without recording the anchor
MouseButtonDownNoAnchor(button, pos) ==
    IF button = 1 /\ collidepoint(reset_button, pos)
    THEN /\ Handled(Event("MOUSEBUTTONDOWN", "", button, pos), 1)
         /\ reset_simulation
         /\ trail_reset' = TRUE
         /\ since' = [k \in 1..Len(planets_data) |-> 0]
         /\ recorded' = [k \in 1..Len(planets_data) |-> <<>>]
         /\ drag' = [drag EXCEPT !.ok = FALSE]
         /\ UNCHANGED <<panning, last_mouse_pos, running, advances>>
    ELSE /\ Handled(Event("MOUSEBUTTONDOWN", "", button, pos), 0)
         /\ panning' = IF button = 1 THEN TRUE ELSE panning
         /\ drag' = IF button = 1
                    THEN [p0 |-> pos, cx |-> camera_x, cy |-> camera_y,
                          at |-> frame, moves |-> 0, ok |-> TRUE]
                    ELSE drag
         /\ UNCHANGED <<bodies, zoomed, camera_x, camera_y, last_mouse_pos,
                        running, trail_reset, since, recorded, advances>>

\* a variant of MouseButtonDown: a reset click also forgets the anchor
MouseButtonDownResetAnchor(button, pos) ==
    IF button = 1 /\ collidepoint(reset_button, pos)
    THEN /\ Handled(Event("MOUSEBUTTONDOWN", "", button, pos), 1)
         /\ reset_simulation
         /\ trail_reset' = TRUE
         /\ since' = [k \in 1..Len(planets_data) |-> 0]
         /\ recorded' = [k \in 1..Len(planets_data) |-> <<>>]
         /\ drag' = [drag EXCEPT !.ok = FALSE]
         /\ last_mouse_pos' = None
         /\ UNCHANGED <<panning, running, advances>>
    ELSE /\ Handled(Event("MOUSEBUTTONDOWN", "", button, pos), 0)
         /\ panning' = IF button = 1 THEN TRUE ELSE panning
         /\ last_mouse_pos' = IF button = 1 THEN pos ELSE last_mouse_pos
         /\ drag' = IF button = 1
                    THEN [p0 |-> pos, cx |-> camera_x, cy |-> camera_y,
                          at |-> frame, moves |-> 0, ok |-> TRUE]
                    ELSE drag
         /\ UNCHANGED <<bodies, zoomed, camera_x, camera_y, running,
                        trail_reset, since, recorded, advances>>

\* lines 176-183
MouseButtonDown(button, pos) ==
    IF button = 1 /\ collidepoint(reset_button, pos)
    THEN /\ Handled(Event("MOUSEBUTTONDOWN", "", button, pos), 1)
         /\ reset_simulation
         /\ trail_reset' = TRUE
         /\ since' = [k \in 1..Len(planets_data) |-> 0]
         /\ recorded' = [k \in 1..Len(planets_data) |-> <<>>]
         /\ drag' = [drag EXCEPT !.ok = FALSE]
         /\ UNCHANGED <<panning, last_mouse_pos, running, advances>>
    ELSE /\ Handled(Event("MOUSEBUTTONDOWN", "", button, pos), 0)
         /\ panning' = IF button = 1 THEN TRUE ELSE panning
         /\ last_mouse_pos' = IF button = 1 THEN pos ELSE last_mouse_pos
         /\ drag' = IF button = 1
                    THEN [p0 |-> pos, cx |-> camera_x, cy |-> camera_y,
                          at |-> frame, moves |-> 0, ok |-> TRUE]
                    ELSE drag
         /\ UNCHANGED <<bodies, zoomed, camera_x, camera_y, running,
                        trail_reset, since, recorded, advances>>

\* a variant of MouseButtonUp: any button ends panning
MouseButtonUpAnyButton(button, pos) ==
    /\ Handled(Event("MOUSEBUTTONUP", "", button, pos), 0)
    /\ panning' = FALSE
    /\ UNCHANGED <<bodies, zoomed, camera_x, camera_y, last_mouse_pos,
                   running, trail_reset, since, recorded, advances, drag>>

\* lines 184-186
MouseButtonUp(button, pos) ==
    /\ Handled(Event("MOUSEBUTTONUP", "", button, pos), 0)
    /\ panning' = IF button = 1 THEN FALSE ELSE panning
    /\ UNCHANGED <<bodies, zoomed, camera_x, camera_y, last_mouse_pos,
                   running, trail_reset, since, recorded, advances, drag>>

\* a variant of MouseMotion: the delta is current - anchor
MouseMotionReversed(pos) ==
    IF ~panning
    THEN /\ Handled(Event("MOUSEMOTION", "", 0, pos), 0)
         /\ UNCHANGED <<bodies, view, running, trail_reset, since, recorded,
                        advances, drag>>
    ELSE IF last_mouse_pos = None
    THEN /\ pc = "events"
         /\ pc' = "error"
         /\ event' = Event("MOUSEMOTION", "", 0, pos)
         /\ UNCHANGED <<planets_data, bodies, view, running, trail_reset,
                        idx, ghost>>
    ELSE /\ Handled(Event("MOUSEMOTION", "", 0, pos), 1)
         /\ camera_x' = camera_x + (pos[1] - last_mouse_pos[1])
         /\ camera_y' = camera_y + (pos[2] - last_mouse_pos[2])
         /\ last_mouse_pos' = pos
         /\ trail_reset' = TRUE
         /\ drag' = [drag EXCEPT !.moves = @ + 1]
         /\ UNCHANGED <<bodies, zoomed, panning, running, since, recorded,
                        advances>>

\* a variant of MouseMotion: the anchor stays where the button went down
MouseMotionKeepAnchor(pos) ==
    IF ~panning
    THEN /\ Handled(Event("MOUSEMOTION", "", 0, pos), 0)
         /\ UNCHANGED <<bodies, view, running, trail_reset, since, recorded,
                        advances, drag>>
    ELSE IF last_mouse_pos = None
    THEN /\ pc = "events"
         /\ pc' = "error"
         /\ event' = Event("MOUSEMOTION", "", 0, pos)
         /\ UNCHANGED <<planets_data, bodies, view, running, trail_reset,
                        idx, ghost>>
    ELSE /\ Handled(Event("MOUSEMOTION", "", 0, pos), 1)
         /\ camera_x' = camera_x + (last_mouse_pos[1] - pos[1])
         /\ camera_y' = camera_y + (last_mouse_pos[2] - pos[2])
         /\ last_mouse_pos' = last_mouse_pos
         /\ trail_reset' = TRUE
         /\ drag' = [drag EXCEPT !.moves = @ + 1]
         /\ UNCHANGED <<bodies, zoomed, panning, running, since, recorded,
                        advances>>

\* lines 187-192; subscripting None raises TypeError, which ends the program
MouseMotion(pos) ==
    IF ~panning
    THEN /\ Handled(Event("MOUSEMOTION", "", 0, pos), 0)
         /\ UNCHANGED <<bodies, view, running, trail_reset, since, recorded,
                        advances, drag>>
    ELSE IF last_mouse_pos = None
    THEN /\ pc = "events"
         /\ pc' = "error"
         /\ event' = Event("MOUSEMOTION", "", 0, pos)
         /\ UNCHANGED <<planets_data, bodies, view, running, trail_reset,
                        idx, ghost>>
    ELSE /\ Handled(Event("MOUSEMOTION", "", 0, pos), 1)
         /\ camera_x' = camera_x + (last_mouse_pos[1] - pos[1])
         /\ camera_y' = camera_y + (last_mouse_pos[2] - pos[2])
         /\ last_mouse_pos' = pos
         /\ trail_reset' = TRUE
         /\ drag' = [drag EXCEPT !.moves = @ + 1]
         /\ UNCHANGED <<bodies, zoomed, panning, running, since, recorded,
                        advances>>

-----------------------------------------------------------------------------
(* The rest of the frame, lines 194-214 *)

\* lines 194-206: the event queue is drained, the for-loop starts
BeginBodies ==
    /\ pc = "events"
    /\ pc' = "update"
    /\ idx' = 1
    /\ pre' = bodies
    /\ UNCHANGED <<planets_data, bodies, view, running, trail_reset, event,
                   frame, handled, since, raised, recorded, advances, drag>>

\* line 207
UpdateBody ==
    /\ pc = "update"
    /\ bodies' = [bodies EXCEPT
                    ![idx] = update_position(idx, bodies, zoomed, camera_x, camera_y)]
    /\ recorded' = [recorded EXCEPT ![idx] =
                      Append(@, [pt |-> ScreenPos(bodies'[idx], zoomed, camera_x, camera_y),
                                 tag |-> ViewTag])]
    /\ since' = [since EXCEPT ![idx] = @ + 1]
    /\ advances' = [advances EXCEPT ![idx] = @ + 1]
    /\ pc' = "clear"
    /\ UNCHANGED <<planets_data, view, running, trail_reset, event, idx,
                   frame, handled, raised, pre, drag>>

\* a variant of ClearIf: the trail is never cleared
ClearIfNever(flag, trail) == trail

\* lines 208-209
ClearIf(flag, trail) == IF flag THEN <<>> ELSE trail

ClearTrail ==
    /\ pc = "clear"
    /\ bodies' = [bodies EXCEPT ![idx].trail = ClearIf(trail_reset, @)]
    /\ recorded' = IF trail_reset THEN [recorded EXCEPT ![idx] = <<>>] ELSE recorded
    /\ pc' = "draw"
    /\ UNCHANGED <<planets_data, view, running, trail_reset, event, idx,
                   frame, handled, since, raised, pre, advances, drag>>

\* line 210, and the step of the for-loop
Draw ==
    /\ pc = "draw"
    /\ IF idx < Len(bodies)
       THEN pc' = "update" /\ idx' = idx + 1
       ELSE pc' = "flip" /\ idx' = idx
    /\ UNCHANGED <<planets_data, bodies, view, running, trail_reset, event,
                   ghost>>

\* a variant of EndFrame: the signal is not cleared
EndFrameKeepSignal ==
    /\ pc = "flip"
    /\ trail_reset' = trail_reset
    /\ raised' = 0
    /\ frame' = frame + 1
    /\ since' = IF trail_reset THEN [k \in DOMAIN since |-> 0] ELSE since
    /\ pc' = IF running THEN "events" ELSE "exit"
    /\ UNCHANGED <<planets_data, bodies, view, running, event, idx, handled,
                   pre, recorded, advances, drag>>

\* a variant of EndFrame: the loop test is skipped, the loop goes on
EndFrameIgnoreQuit ==
    /\ pc = "flip"
    /\ trail_reset' = FALSE
    /\ raised' = 0
    /\ frame' = frame + 1
    /\ since' = IF trail_reset THEN [k \in DOMAIN since |-> 0] ELSE since
    /\ pc' = "events"
    /\ UNCHANGED <<planets_data, bodies, view, running, event, idx, handled,
                   pre, recorded, advances, drag>>

\* lines 212-214 and the loop test of line 152
EndFrame ==
    /\ pc = "flip"
    /\ trail_reset' = FALSE
    /\ raised' = 0
    /\ frame' = frame + 1
    /\ since' = IF trail_reset THEN [k \in DOMAIN since |-> 0] ELSE since
    /\ pc' = IF running THEN "events" ELSE "exit"
    /\ UNCHANGED <<planets_data, bodies, view, running, event, idx, handled,
                   pre, recorded, advances, drag>>

-----------------------------------------------------------------------------
(* Specifications *)

\* Spec: Sun and planet, any events, a few whole frames
Next ==
    \/ frame < MaxFrames /\ handled < MaxEvents /\ Quit
    \/ frame < MaxFrames /\ handled < MaxEvents /\ \E k \in Keys : KeyDown(k)
    \/ frame < MaxFrames /\ handled < MaxEvents /\ \E b \in Buttons, p \in Positions : MouseButtonDown(b, p)
    \/ frame < MaxFrames /\ handled < MaxEvents /\ \E b \in Buttons, p \in Positions : MouseButtonUp(b, p)
    \/ frame < MaxFrames /\ handled < MaxEvents /\ \E p \in Positions : MouseMotion(p)
    \/ frame < MaxFrames /\ BeginBodies
    \/ UpdateBody
    \/ ClearTrail
    \/ Draw
    \/ EndFrame

Spec == Init /\ [][Next]_vars

\* SpecLive: quit and zoom-key events, and the loop body keeps going: the
\* event queue of a frame is finite, and update, clear, draw and flip return,
\* so the step that is next in the frame is eventually taken
FrameStep ==
    \/ frame < MaxFrames /\ BeginBodies
    \/ UpdateBody
    \/ ClearTrail
    \/ Draw
    \/ EndFrame

NextLive ==
    \/ frame < MaxFrames /\ handled < MaxEvents /\ Quit
    \/ frame < MaxFrames /\ handled < MaxEvents /\ KeyDown("K_z")
    \/ FrameStep

SpecLive == Init /\ [][NextLive]_vars /\ WF_vars(FrameStep)

\* SpecProbe: the first frame of each probe configuration, after any number
\* of right-key and zoom-key presses
NextProbe ==
    \/ frame = 0 /\ handled < MaxPresses /\ \E k \in {"K_RIGHT", "K_z"} : KeyDown(k)
    \/ frame = 0 /\ BeginBodies
    \/ UpdateBody
    \/ ClearTrail
    \/ Draw
    \/ EndFrame

SpecProbe == InitProbe /\ [][NextProbe]_vars

\* SpecLong: the drifting pair, run until the trails have filled twice; the
\* user acts in the first frame and in the frames just after the trails are
\* full, and is idle while they fill
Busy == frame = 0 \/ (frame >= TRAIL_CAP /\ frame <= TRAIL_CAP + MaxOver)

LongFrames == 2 * (TRAIL_CAP + MaxOver)

NextLong ==
    \/ handled < MaxEvents /\ Busy /\ KeyDown("K_z")
    \/ handled < MaxEvents /\ Busy /\ MouseButtonDown(1, <<50, 20>>)
    \/ frame < LongFrames /\ BeginBodies
    \/ UpdateBody
    \/ ClearTrail
    \/ Draw
    \/ EndFrame

SpecLong == InitLong /\ [][NextLong]_vars

-----------------------------------------------------------------------------
(* Properties *)

Min(a, b) == IF a < b THEN a ELSE b

Phys(b) == <<b.x, b.y, b.vx, b.vy>>

Points(r) == [j \in 1..Len(r) |-> r[j].pt]

LastN(q, n) == SubSeq(q, Len(q) - n + 1, Len(q))

AllTrailsEmpty == \A k \in 1..Len(bodies) : bodies[k].trail = <<>>

\* the step handles an event of this type
EventStep(type) == handled' = handled + 1 /\ event'.type = type

KeyStep(key) == EventStep("KEYDOWN") /\ event'.key = key

IsResetClick(ev) ==
    /\ ev.type = "MOUSEBUTTONDOWN"
    /\ ev.button = 1
    /\ collidepoint(reset_button, ev.pos)

IsPanStart(ev) ==
    /\ ev.type = "MOUSEBUTTONDOWN"
    /\ ev.button = 1
    /\ ~collidepoint(reset_button, ev.pos)

\* C1: every body is advanced with the force computed from the positions all
\* bodies had when the frame's for-loop began (the pre-frame snapshot): once
\* body idx has been updated, its position and velocity are those that
\* Integrate gives from the snapshot.
C1_SnapshotForces ==
    pc \in {"clear", "draw"} =>
        Phys(bodies[idx]) = Phys(Integrate(pre[idx], NetForce(idx, pre)))

\* C2: every trail holds at most 200 points and is exactly the most recent
\* points recorded since it was last empty, in recording order (so an append
\* to a full trail evicted the oldest point).
C2_TrailBounded ==
    \A k \in 1..Len(bodies) :
        /\ Len(bodies[k].trail) <= 200
        /\ bodies[k].trail =
             LastN(Points(recorded[k]), Min(Len(recorded[k]), 200))

\* C2 witness: a body has recorded more than 200 points since its trail was
\* empty, so points have been evicted.
C2_Witness ==
    \E k \in 1..Len(bodies) :
        Len(recorded[k]) > 200 /\ Len(bodies[k].trail) = 200

\* C3: outside a frame that signals trail-reset, each trail's length is
\* min(N, 200), N the frames counted since the trail was last empty; and when
\* a frame that signals trail-reset has run all bodies, every trail is empty.
C3_TrailLength ==
    /\ ~trail_reset =>
         \A k \in 1..Len(bodies) : Len(bodies[k].trail) = Min(since[k], 200)
    /\ (pc = "flip" /\ trail_reset) => AllTrailsEmpty

\* C3 witness: the end of a trail-reset frame that began with full trails
\* (more than 200 frames counted), the trails now empty.
C3_Witness ==
    /\ pc = "flip" /\ trail_reset
    /\ \A k \in 1..Len(bodies) : since[k] > 200 /\ bodies[k].trail = <<>>

\* C4: the signal is false in event handling until an event of the frame
\* raises it; a frame in which an event raised it ends with every trail empty
\* and EndFrame leaves the signal false; a frame with no raising event clears
\* no trail.
C4_OneShot ==
    /\ []((pc = "events" /\ raised = 0) => ~trail_reset)
    /\ []((pc = "flip" /\ raised > 0) => AllTrailsEmpty)
    /\ [][pc = "flip" => ~trail_reset']_vars
    /\ [][(pc = "clear" /\ raised = 0) => bodies' = bodies]_vars

\* C4 witness: a later frame in which two events raised the signal has run
\* all bodies.
C4_Witness == pc = "flip" /\ raised >= 2 /\ frame >= 1 /\ AllTrailsEmpty

\* C5 (as stated): last-pointer-position is defined iff panning is true.
C5_AnchorIffPanning == (last_mouse_pos # None) <=> panning

\* C5 (amended): last-pointer-position is defined whenever panning is true,
\* and once defined it stays defined (pointer-up and reset leave it in place).
C5_AnchorWhilePanning ==
    /\ [](panning => last_mouse_pos # None)
    /\ [][last_mouse_pos # None => last_mouse_pos' # None]_vars

\* C5 witness: a pointer-up has ended panning and the anchor is still there.
C5_Witness ==
    event.type = "MOUSEBUTTONUP" /\ ~panning /\ last_mouse_pos # None

\* C6: when a body is drawn, every point of its trail is a point recorded
\* under the zoom flag and camera offset in effect now.
C6_TrailInCurrentView ==
    pc = "draw" =>
        LET t == bodies[idx].trail
            r == recorded[idx]
        IN /\ Len(t) <= Len(r)
           /\ \A j \in 1..Len(t) :
                /\ r[Len(r) - Len(t) + j].pt = t[j]
                /\ r[Len(r) - Len(t) + j].tag = ViewTag

\* C6 witness: a body is drawn with a non-empty trail after the view was
\* zoomed and panned.
C6_Witness ==
    pc = "draw" /\ bodies[idx].trail # <<>> /\ zoomed /\ camera_x # 0

\* C7: a reset click sets the bodies to the initial configuration (perihelion
\* position and velocity, empty trails), the camera offset to (0, 0), the zoom
\* flag off and raises trail-reset, whatever the state before; it changes
\* nothing else of the view, so a second reset in succession changes nothing.
C7_ResetResult ==
    [][(handled' = handled + 1 /\ IsResetClick(event')) =>
         /\ \A k \in 1..Len(planets_data) :
              /\ bodies'[k] = get_initial_conditions(planets_data[k])
              /\ bodies'[k].trail = <<>>
         /\ Len(bodies') = Len(planets_data)
         /\ camera_x' = 0 /\ camera_y' = 0
         /\ ~zoomed'
         /\ trail_reset'
         /\ UNCHANGED <<panning, last_mouse_pos, running>>]_vars

\* C7 witness: a reset click handled in a later frame, after another raising
\* event of that frame, has put the bodies back.
C7_Witness ==
    /\ IsResetClick(event) /\ pc = "events" /\ frame >= 1 /\ raised >= 2
    /\ bodies = InitialBodies(planets_data)
    /\ trail_reset

\* C8: a pointer-move handled while panning adds anchor - pointer to the
\* camera offset on both axes, makes the pointer the anchor, stays in Panning
\* and raises trail-reset.
C8_DragMove ==
    [][(EventStep("MOUSEMOTION") /\ panning) =>
         /\ last_mouse_pos # None
         /\ camera_x' = camera_x + (last_mouse_pos[1] - event'.pos[1])
         /\ camera_y' = camera_y + (last_mouse_pos[2] - event'.pos[2])
         /\ last_mouse_pos' = event'.pos
         /\ panning'
         /\ trail_reset']_vars

\* C8 witness: a pointer-move has been handled while panning and moved the
\* camera.
C8_Witness ==
    /\ event.type = "MOUSEMOTION" /\ panning /\ trail_reset
    /\ last_mouse_pos = event.pos
    /\ camera_x # 0 /\ camera_y # 0

\* C9: in Idle and in Panning, a pan key changes one axis of the camera
\* offset by 50 (left x-50, right x+50, up y-50, down y+50), the zoom key
\* flips the zoom flag, each leaves everything else of the view unchanged,
\* and each raises trail-reset.
C9_KeyEffects ==
    [][\A key \in {"K_z", "K_LEFT", "K_RIGHT", "K_UP", "K_DOWN"} :
         KeyStep(key) =>
           /\ camera_x' = camera_x + (CASE key = "K_LEFT"  -> -50
                                        [] key = "K_RIGHT" -> 50
                                        [] OTHER           -> 0)
           /\ camera_y' = camera_y + (CASE key = "K_UP"    -> -50
                                        [] key = "K_DOWN"  -> 50
                                        [] OTHER           -> 0)
           /\ zoomed' = (IF key = "K_z" THEN ~zoomed ELSE zoomed)
           /\ panning' = panning
           /\ last_mouse_pos' = last_mouse_pos
           /\ trail_reset']_vars

\* C9 witness: the up key has been handled while panning.
C9_Witness ==
    /\ event.type = "KEYDOWN" /\ event.key = "K_UP"
    /\ panning /\ camera_y = -50 /\ camera_x = 0 /\ trail_reset

\* C10: panning starts only by a primary pointer-down off the reset control,
\* which records the event position as anchor, and ends only by a primary
\* pointer-up; these two events always have that effect; a pointer-down on
\* the reset control, an event of another button, a key event and a
\* pointer-move in Idle leave the panning flag and the anchor as they are,
\* and the last two kinds of pointer event leave the camera offset as it is.
C10_PanTransitions ==
    [][/\ (~panning /\ panning') =>
            (handled' = handled + 1 /\ IsPanStart(event'))
       /\ (panning /\ ~panning') =>
            (EventStep("MOUSEBUTTONUP") /\ event'.button = 1)
       /\ (handled' = handled + 1 /\ IsPanStart(event')) =>
            (panning' /\ last_mouse_pos' = event'.pos)
       /\ (EventStep("MOUSEBUTTONUP") /\ event'.button = 1) => ~panning'
       /\ (\/ handled' = handled + 1 /\ IsResetClick(event')
           \/ EventStep("KEYDOWN")) =>
            UNCHANGED <<panning, last_mouse_pos>>
       /\ (\/ (EventStep("MOUSEBUTTONDOWN") /\ event'.button # 1)
           \/ (EventStep("MOUSEBUTTONUP") /\ event'.button # 1)
           \/ (EventStep("MOUSEMOTION") /\ ~panning)) =>
            UNCHANGED <<panning, last_mouse_pos, camera_x, camera_y,
                        trail_reset>>]_vars

\* C10 witness: panning was started and a secondary-button release has just
\* been handled without ending it.
C10_Witness ==
    /\ event.type = "MOUSEBUTTONUP" /\ event.button = 3
    /\ panning /\ last_mouse_pos # None

\* C11: once a quit event is handled the loop eventually terminates; it
\* terminates only at the end of a frame, with the one-shot signal cleared and
\* every body advanced once per completed frame (so no body more often than
\* another); and the first frame to end after the quit is the last one.
C11_QuitTerminates ==
    /\ [](~running => <>(pc = "exit"))
    /\ [](pc = "exit" =>
            /\ ~running /\ ~trail_reset
            /\ \A k \in 1..Len(bodies) : advances[k] = frame)
    /\ [][(~running /\ frame' # frame) => pc' = "exit"]_vars
    /\ [][pc = "exit" => pc' = "exit"]_vars

\* C11 witness: the loop has terminated after a quit that was not the last
\* event of its frame, in a frame later than the first.
C11_Witness ==
    /\ pc = "exit" /\ frame >= 2 /\ event.type # "QUIT"
    /\ \A k \in 1..Len(bodies) : advances[k] = frame

\* C12: one call of update_position is a semi-implicit Euler step with
\* dt = 3600: with F the force on the body at its position before the call,
\* the new velocity is v + (F / mass) * 3600 and the new position is
\* x + (new velocity) * 3600, on both axes, in every frame.
C12_SemiImplicitEuler ==
    [][(pc = "update" /\ pc' = "clear") =>
         LET b  == bodies[idx]
             nb == bodies'[idx]
             F  == NetForce(idx, bodies)
         IN /\ nb.vx = b.vx + Quot(F[1] * 3600, b.mass)
            /\ nb.vy = b.vy + Quot(F[2] * 3600, b.mass)
            /\ nb.x = b.x + nb.vx * 3600
            /\ nb.y = b.y + nb.vy * 3600
            /\ nb.mass = b.mass]_vars

\* C12 witness: a body has been advanced under a force that changed its
\* velocity, and its position moved by the new velocity, not the old one.
C12_Witness ==
    /\ pc = "clear"
    /\ bodies[idx].vx # pre[idx].vx
    /\ bodies[idx].x = pre[idx].x + bodies[idx].vx * DT
    /\ bodies[idx].x # pre[idx].x + pre[idx].vx * DT

\* squared distance of two bodies
Dist2(p, q) == (q.x - p.x) * (q.x - p.x) + (q.y - p.y) * (q.y - p.y)

\* the bodies other than i that are farther than 1000 from body i
Far(i, bs) == {j \in 1..Len(bs) : j # i /\ Dist2(bs[i], bs[j]) > 1000 * 1000}

RECURSIVE SumOver(_, _, _)
\* the sum of the pairwise forces on body i from the bodies of the set J
SumOver(J, i, bs) ==
    IF J = {} THEN <<0, 0>>
    ELSE LET j    == CHOOSE k \in J : TRUE
             rest == SumOver(J \ {j}, i, bs)
             p    == PairForce(bs[i], bs[j])
         IN <<p[1] + rest[1], p[2] + rest[2]>>

\* C13: a body at distance r <= 1000 (1000 included) contributes zero force
\* and a body at distance r > 1000 a nonzero one (wherever the magnitude
\* G m1 m2 / r^2 is at least two units, so that truncation leaves a nonzero
\* component); and the velocity change of an updated body is the one given by
\* the sum over exactly the other bodies farther than 1000: the body itself
\* adds nothing and a skipped body does not stop the summation.
C13_DistanceFloor ==
    /\ [](\A i, j \in 1..Len(bodies) :
            i # j =>
              /\ Dist2(bodies[i], bodies[j]) <= 1000 * 1000 =>
                   PairForce(bodies[i], bodies[j]) = <<0, 0>>
              /\ (/\ Dist2(bodies[i], bodies[j]) > 1000 * 1000
                  /\ GTimes(bodies[i].mass) * bodies[j].mass
                       >= 2 * Dist2(bodies[i], bodies[j])) =>
                   PairForce(bodies[i], bodies[j]) # <<0, 0>>)
    /\ [][(pc = "update" /\ pc' = "clear") =>
            LET F == SumOver(Far(idx, bodies), idx, bodies)
            IN /\ bodies'[idx].vx = bodies[idx].vx + AccelDT(F[1], bodies[idx].mass)
               /\ bodies'[idx].vy = bodies[idx].vy + AccelDT(F[2], bodies[idx].mass)]_vars

\* C13 witness: the first body has been updated with the second exactly 1000
\* away (skipped) and the third farther away, pulling.
C13_Witness ==
    /\ pc = "clear" /\ idx = 1
    /\ Dist2(pre[1], pre[2]) = 1000 * 1000
    /\ PairForce(pre[1], pre[3]) # <<0, 0>>
    /\ Far(1, pre) = {3}

\* C14: for every two distinct bodies farther than 1000 apart, the force
\* computed on the first from the second and the force computed on the second
\* from the first are each other's negation, component by component.
C14_Antisymmetric ==
    \A i, j \in 1..Len(bodies) :
        (i # j /\ Dist2(bodies[i], bodies[j]) > 1000 * 1000) =>
            /\ PairForce(bodies[i], bodies[j])[1] = -PairForce(bodies[j], bodies[i])[1]
            /\ PairForce(bodies[i], bodies[j])[2] = -PairForce(bodies[j], bodies[i])[2]

AbsVal(n) == IF n >= 0 THEN n ELSE -n

\* the scale selected by the zoom flag
ZoomOrNot == IF zoomed THEN ZOOM_SCALE ELSE SCALE

\* x * scale + viewportCenter - cameraOffset of the body just updated, exact,
\* as a numerator over the denominator of the scale
ExactX == bodies[idx].x * ZoomOrNot[1] + (450 - camera_x) * ZoomOrNot[2]
ExactY == bodies[idx].y * ZoomOrNot[1] + (300 - camera_y) * ZoomOrNot[2]

\* the screen point update_position has just appended to the trail
NewPoint == bodies[idx].trail[Len(bodies[idx].trail)]

\* n is an integer nearest to num / den (either neighbour on a tie)
Nearest(n, num, den) == 2 * AbsVal(n * den - num) <= den

\* n is num / den with the fractional part dropped
Truncated(n, num, den) ==
    IF num >= 0 THEN n * den <= num /\ num < (n + 1) * den
                ELSE (n - 1) * den < num /\ num <= n * den

\* C15 (as stated): the projected screen coordinate of a body is the integer
\* nearest to x * scale + viewportCenter - cameraOffset on each axis, for the
\* scale selected by the zoom flag.
C15_RoundsToNearest ==
    pc = "clear" =>
        /\ Nearest(NewPoint[1], ExactX, ZoomOrNot[2])
        /\ Nearest(NewPoint[2], ExactY, ZoomOrNot[2])

\* C15 (amended): the projected screen coordinate is that value truncated
\* toward zero (fraction dropped, also for negative values and fractions of
\* one half or more), for the scale selected by the zoom flag.
C15_TruncatesTowardZero ==
    pc = "clear" =>
        /\ Truncated(NewPoint[1], ExactX, ZoomOrNot[2])
        /\ Truncated(NewPoint[2], ExactY, ZoomOrNot[2])

\* C15 witness: zoomed in, a body has been projected to a negative screen x
\* whose exact value has a fractional part of more than one half.
C15_Witness ==
    /\ pc = "clear" /\ zoomed
    /\ ExactX < 0
    /\ 2 * ((-ExactX) % ZoomOrNot[2]) > ZoomOrNot[2]
    /\ NewPoint[1] < 0

\* C16: events are handled only in the event phase of a frame, before its
\* first body is advanced; from the first advance to the last draw (and to the
\* end of the frame) no event is handled and the zoom flag, camera offset,
\* panning flag and anchor do not change; the view changes only by an event.
C16_EventsBeforeBodies ==
    /\ [][handled' # handled => (pc = "events" /\ pc' = "events")]_vars
    /\ [][(pc \in {"update", "clear", "draw", "flip"}) =>
            (view' = view /\ handled' = handled /\ event' = event)]_vars
    /\ [][view' # view => handled' = handled + 1]_vars

\* C16 witness: the last body of a later frame is being drawn, after three
\* events (a pan start and two raising ones) were applied at its start.
C16_Witness ==
    /\ pc = "draw" /\ idx = Len(bodies) /\ frame >= 1
    /\ raised >= 2 /\ panning

\* C17: in every reachable state, panning implies that the anchor is defined,
\* and no pointer-move has failed reading an undefined anchor.
C17_AnchorDefined ==
    /\ panning => last_mouse_pos # None
    /\ pc # "error"

\* C17 witness: a drag was started in an earlier frame; in this frame a reset
\* click was handled while panning and then a pointer-move, which read the
\* anchor and replaced it.
C17_Witness ==
    /\ event.type = "MOUSEMOTION" /\ panning /\ frame >= 1
    /\ ~drag.ok /\ drag.moves = 1 /\ drag.at < frame
    /\ last_mouse_pos = event.pos
    /\ bodies = InitialBodies(planets_data)

\* C18: over a drag (a primary pointer-down at p0 off the reset control, then
\* pointer-moves, the last one at pn, with no key or reset event in between)
\* the camera offset has changed by exactly p0 - pn on each axis since the
\* pointer-down, however many moves were handled and in whichever frames.
C18_DragTotal ==
    (drag.ok /\ event.type = "MOUSEMOTION" /\ panning) =>
        /\ camera_x - drag.cx = drag.p0[1] - event.pos[1]
        /\ camera_y - drag.cy = drag.p0[2] - event.pos[2]

\* C18 witness: a drag's second move, handled in a later frame than its
\* first (it is the only raising event of this frame), has moved the camera.
C18_Witness ==
    /\ drag.ok /\ event.type = "MOUSEMOTION" /\ panning
    /\ drag.moves >= 2 /\ raised = 1 /\ pc = "events"
    /\ event.pos # drag.p0
    /\ camera_x # drag.cx

=============================================================================
